---- MODULE Spec2Model ----
(***************************************************************************)
(* Wire codec of src/src/websocket.rs: SubscriptionRequest,                *)
(* SubscriptionResponse and Trade, their serde-derived JSON encoding and   *)
(* decoding, and the coercion helpers de_string_to_f64 and de_from_str.    *)
(*                                                                         *)
(* JSON text and Rust strings are TLA+ strings, read one character at a    *)
(* time with SubSeq.  A u64 is four base-2^16 limbs, least significant     *)
(* first, so that the whole range 0 .. 2^64-1 is represented exactly.      *)
(***************************************************************************)
EXTENDS Integers, Sequences, FiniteSets, TLC

VARIABLES
    req,    \* the SubscriptionRequest being assembled
    calls,  \* history: the id given to new and the streams given to add_stream
    text,   \* the JSON text last produced by an encoder or handed to a decoder
    src,    \* history: where text came from, the value that was encoded or
            \* the parts the text handed to a decoder was assembled from
    out,    \* the Result of the last encode or decode call
    op      \* the last operation

vars == <<req, calls, text, src, out, op>>

(***************************************************************************)
(* Bounds of the model.                                                    *)
(***************************************************************************)
MaxStreams == 2

(***************************************************************************)
(* Characters and strings.  Operators over a whole string split it in two  *)
(* halves or scan it with a quantifier, which keeps the evaluation shallow.*)
(***************************************************************************)
\* the i-th character of s, "" past its end
Char(s, i) == IF i >= 1 /\ i <= Len(s) THEN SubSeq(s, i, i) ELSE ""

DigitChars == "0123456789"

IsDigit(c) == \E d \in 1..10 : Char(DigitChars, d) = c

DigitVal(c) == (CHOOSE d \in 1..10 : Char(DigitChars, d) = c) - 1

DigitChar(d) == Char(DigitChars, d + 1)

\* the first position at or after pos whose character fails P (Len(s) + 1 if none)
ScanWhile(P(_), s, pos) ==
    IF pos > Len(s) THEN pos
    ELSE CHOOSE p \in pos..(Len(s) + 1) :
            /\ ~P(Char(s, p))
            /\ \A q \in pos..(p - 1) : P(Char(s, q))

RECURSIVE Pow10(_)
Pow10(k) == IF k = 0 THEN 1 ELSE 10 * Pow10(k - 1)

\* the value of the decimal numeral s[lo..hi], at most nine digits long
RECURSIVE DigitsToNat(_, _, _)
DigitsToNat(s, lo, hi) ==
    IF lo > hi THEN 0
    ELSE DigitsToNat(s, lo, hi - 1) * 10 + DigitVal(Char(s, hi))

RECURSIVE NatToString(_)
NatToString(n) ==
    IF n < 10 THEN DigitChar(n) ELSE NatToString(n \div 10) \o DigitChar(n % 10)

IntToString(n) == IF n < 0 THEN "-" \o NatToString(0 - n) ELSE NatToString(n)

RECURSIVE Zeros(_)
Zeros(n) == IF n <= 0 THEN "" ELSE "0" \o Zeros(n - 1)

(***************************************************************************)
(* u64: the field type of id, event_time, trade_id and trade_time.  The    *)
(* decimal conversions work four digits at a time.                         *)
(***************************************************************************)
LimbBase == 65536

DigitGroup == 4

GroupBase == 10000

U64Zero == <<0, 0, 0, 0>>

U64Max == <<LimbBase - 1, LimbBase - 1, LimbBase - 1, LimbBase - 1>>

\* n * m + a in u64 arithmetic with its overflow flag (checked_mul, checked_add)
MulAdd(n, m, a) ==
    LET c1 == n[1] * m + a
        c2 == n[2] * m + c1 \div LimbBase
        c3 == n[3] * m + c2 \div LimbBase
        c4 == n[4] * m + c3 \div LimbBase
    IN  [val |-> <<c1 % LimbBase, c2 % LimbBase, c3 % LimbBase, c4 % LimbBase>>,
         overflow |-> c4 \div LimbBase > 0]

\* n divided by m: the quotient and the remainder
DivMod(n, m) ==
    LET c4 == n[4]
        c3 == (c4 % m) * LimbBase + n[3]
        c2 == (c3 % m) * LimbBase + n[2]
        c1 == (c2 % m) * LimbBase + n[1]
    IN  [quot |-> <<c1 \div m, c2 \div m, c3 \div m, c4 \div m>>, rem |-> c1 % m]

ZeroPad(d, width) == Zeros(width - Len(d)) \o d

\* the decimal text of a u64 (itoa): as many digits as the value needs
RECURSIVE U64Digits(_)
U64Digits(n) ==
    LET r == DivMod(n, GroupBase) IN
    IF r.quot = U64Zero THEN NatToString(r.rem)
    ELSE U64Digits(r.quot) \o ZeroPad(NatToString(r.rem), DigitGroup)

U64ToString(n) == U64Digits(n)

(***************************************************************************)
(* serde_json's writer: strings, sequences of strings, struct keys.        *)
(***************************************************************************)
\* ESCAPE table of serde_json: quote, backslash and the short control escapes
EscapeChar(c) ==
    CASE c = "\"" -> "\\\""
      [] c = "\\" -> "\\\\"
      [] c = "\n" -> "\\n"
      [] c = "\t" -> "\\t"
      [] c = "\r" -> "\\r"
      [] c = "\f" -> "\\f"
      [] OTHER    -> c

NeedsNoEscape(c) == c # "" /\ EscapeChar(c) = c

\* format_escaped_str_contents: runs of plain characters, each followed by an escape
RECURSIVE WriteEscaped(_, _)
WriteEscaped(s, pos) ==
    LET p == ScanWhile(NeedsNoEscape, s, pos) IN
    IF p > Len(s) THEN SubSeq(s, pos, Len(s))
    ELSE SubSeq(s, pos, p - 1) \o EscapeChar(Char(s, p)) \o WriteEscaped(s, p + 1)

WriteString(s) == "\"" \o WriteEscaped(s, 1) \o "\""

RECURSIVE WriteStringSeqFrom(_, _)
WriteStringSeqFrom(xs, i) ==
    IF i > Len(xs) THEN ""
    ELSE (IF i > 1 THEN "," ELSE "") \o WriteString(xs[i]) \o WriteStringSeqFrom(xs, i + 1)

WriteStringSeq(xs) == "[" \o WriteStringSeqFrom(xs, 1) \o "]"

\* rename_all = "kebab-case": every underscore of the Rust field name becomes a hyphen
KebabChar(c) == IF c = "_" THEN "-" ELSE c

RECURSIVE KebabRange(_, _, _)
KebabRange(name, lo, hi) ==
    CASE lo > hi -> ""
      [] lo = hi -> KebabChar(Char(name, lo))
      [] OTHER   -> LET mid == (lo + hi) \div 2
                    IN  KebabRange(name, lo, mid) \o KebabRange(name, mid + 1, hi)

KebabCase(name) == KebabRange(name, 1, Len(name))

\* a struct field: its Rust name, the key it is written and read under, the
\* alias it is also read under, and how its value is decoded
Field(name, alias, ty) ==
    [name |-> name, key |-> KebabCase(name), alias |-> alias, ty |-> ty]

WriteKey(f) == WriteString(f.key) \o ":"

(***************************************************************************)
(* serde_json's reader.  ParseValue reads one JSON value starting at pos   *)
(* and answers [ok, v, pos]: the value as a tree and the position after    *)
(* it.  Object members keep their order and their repetitions.  The        *)
(* escapes \b and \uXXXX stand for characters outside the model's          *)
(* alphabet and occur in no modelled text.                                 *)
(***************************************************************************)
JNull == [t |-> "null"]

JBool(b) == [t |-> "bool", b |-> b]

JStr(s) == [t |-> "str", s |-> s]

JNum(kind, u) == [t |-> "num", kind |-> kind, u |-> u]

JArr(items) == [t |-> "arr", items |-> items]

JObj(members) == [t |-> "obj", members |-> members]

Fail == [ok |-> FALSE]

Parsed(v, pos) == [ok |-> TRUE, v |-> v, pos |-> pos]

IsWs(c) == c = " " \/ c = "\n" \/ c = "\t" \/ c = "\r"

SkipWs(s, pos) == ScanWhile(IsWs, s, pos)

SkipDigits(s, pos) == ScanWhile(IsDigit, s, pos)

IsControl(c) == c = "\n" \/ c = "\t" \/ c = "\r" \/ c = "\f"

\* a faulty variant of Unescape that reads \n as the letter n
UnescapeLetters(e) ==
    CASE e = "\"" -> "\""
      [] e = "\\" -> "\\"
      [] OTHER    -> e

Unescape(e) ==
    CASE e = "\"" -> "\""
      [] e = "\\" -> "\\"
      [] e = "/"  -> "/"
      [] e = "n"  -> "\n"
      [] e = "t"  -> "\t"
      [] e = "r"  -> "\r"
      [] e = "f"  -> "\f"
      [] OTHER    -> ""

\* a character that parse_str copies as it stands
IsPlainChar(c) == c # "" /\ c # "\"" /\ c # "\\" /\ ~IsControl(c)

\* pos is just after the opening quote or the last escape: copy the run of
\* plain characters, then end at a quote or decode one escape and go on; a
\* raw control character, an unknown escape and the end of the text are errors
RECURSIVE ParseStringBody(_, _, _)
ParseStringBody(s, pos, acc) ==
    LET p   == ScanWhile(IsPlainChar, s, pos)
        run == acc \o SubSeq(s, pos, p - 1)
    IN  CASE Char(s, p) = "\"" -> Parsed(run, p + 1)
          [] Char(s, p) = "\\" /\ Unescape(Char(s, p + 1)) # "" ->
                ParseStringBody(s, p + 2, run \o Unescape(Char(s, p + 1)))
          [] OTHER -> Fail

\* the digits s[lo..hi] accumulated onto n as serde_json's parse_integer does
\* (significand * 10 + digit), with the flag for a u64 overflow on the way
RECURSIVE ParseDigits(_, _, _, _, _)
ParseDigits(s, lo, hi, n, over) ==
    IF lo > hi THEN [val |-> n, over |-> over]
    ELSE LET top == IF lo + DigitGroup - 1 <= hi THEN lo + DigitGroup - 1 ELSE hi
             r   == MulAdd(n, Pow10(top - lo + 1), DigitsToNat(s, lo, top))
         IN  IF r.overflow THEN ParseDigits(s, top + 1, hi, r.val, TRUE)
             ELSE ParseDigits(s, top + 1, hi, r.val, over)

\* n <= 2^63, the magnitudes a negative i64 can hold
FitsNegI64(n) ==
    \/ n[4] < LimbBase \div 2
    \/ n[4] = LimbBase \div 2 /\ n[1] = 0 /\ n[2] = 0 /\ n[3] = 0

\* serde_json's parse_any_number: p1 is at the first digit, pi after the integer
\* part, p2 after the fraction, p3 at the first digit of the exponent, p4 at the end
ParseNumber(s, pos) ==
    LET neg == Char(s, pos) = "-"
        p1  == IF neg THEN pos + 1 ELSE pos
        Result(int, float, p4) ==
            LET kind == IF float \/ int.over THEN "f64"
                        ELSE IF ~neg THEN "u64"
                        ELSE IF int.val # U64Zero /\ FitsNegI64(int.val) THEN "i64"
                        ELSE "f64"
            IN  Parsed(JNum(kind, IF kind = "f64" THEN U64Zero ELSE int.val), p4)
        Fraction(pi, p2) ==
            LET hasEx == Char(s, p2) = "e" \/ Char(s, p2) = "E"
                p3    == IF Char(s, p2 + 1) = "+" \/ Char(s, p2 + 1) = "-"
                         THEN p2 + 2 ELSE p2 + 1
                p4    == IF hasEx THEN SkipDigits(s, p3) ELSE p2
            IN  CASE p2 = pi + 1       -> Fail
                  [] hasEx /\ p4 = p3  -> Fail
                  [] OTHER ->
                        Result(ParseDigits(s, p1, pi - 1, U64Zero, FALSE), p2 # pi \/ hasEx, p4)
        Integer(pi) == Fraction(pi, IF Char(s, pi) = "." THEN SkipDigits(s, pi + 1) ELSE pi)
    IN  CASE ~IsDigit(Char(s, p1)) -> Fail
          [] Char(s, p1) = "0" /\ IsDigit(Char(s, p1 + 1)) -> Fail
          [] OTHER -> Integer(IF Char(s, p1) = "0" THEN p1 + 1 ELSE SkipDigits(s, p1))

ParseIdent(s, pos, word, v) ==
    IF pos + Len(word) - 1 <= Len(s) /\ SubSeq(s, pos, pos + Len(word) - 1) = word
    THEN Parsed(v, pos + Len(word))
    ELSE Fail

RECURSIVE ParseValue(_, _)
RECURSIVE ParseElems(_, _, _)
RECURSIVE ParseMembers(_, _, _)

\* pos is at an element and acc holds the elements before it: the elements up
\* to the closing "]"; a "]" here (after "[" it is handled by the caller, after
\* "," it is a trailing comma) is no value and fails
ParseElems(s, pos, acc) ==
    LET Value(r, p) ==
            CASE ~r.ok            -> Fail
              [] Char(s, p) = "]" -> Parsed(Append(acc, r.v), p + 1)
              [] Char(s, p) = "," -> ParseElems(s, SkipWs(s, p + 1), Append(acc, r.v))
              [] OTHER            -> Fail
        After(r) == Value(r, SkipWs(s, r.pos))
    IN  After(ParseValue(s, pos))

\* pos is at a key and acc holds the members before it: the members up to the
\* closing "}"
ParseMembers(s, pos, acc) ==
    LET k  == ParseStringBody(s, pos + 1, "")
        Value(r, p) ==
            CASE ~r.ok            -> Fail
              [] Char(s, p) = "}" -> Parsed(Append(acc, [k |-> k.v, v |-> r.v]), p + 1)
              [] Char(s, p) = "," ->
                    ParseMembers(s, SkipWs(s, p + 1), Append(acc, [k |-> k.v, v |-> r.v]))
              [] OTHER            -> Fail
        After(r) == Value(r, SkipWs(s, r.pos))
    IN  CASE Char(s, pos) # "\""                -> Fail
          [] ~k.ok                              -> Fail
          [] Char(s, SkipWs(s, k.pos)) # ":"    -> Fail
          [] OTHER -> After(ParseValue(s, SkipWs(s, SkipWs(s, k.pos) + 1)))

ParseValue(s, pos) ==
    LET c == Char(s, pos)
        p == SkipWs(s, pos + 1)
        Str(r) == IF r.ok THEN Parsed(JStr(r.v), r.pos) ELSE Fail
        Arr(r) == IF r.ok THEN Parsed(JArr(r.v), r.pos) ELSE Fail
        Obj(r) == IF r.ok THEN Parsed(JObj(r.v), r.pos) ELSE Fail
    IN  CASE c = "n"  -> ParseIdent(s, pos, "null", JNull)
          [] c = "t"  -> ParseIdent(s, pos, "true", JBool(TRUE))
          [] c = "f"  -> ParseIdent(s, pos, "false", JBool(FALSE))
          [] c = "\"" -> Str(ParseStringBody(s, pos + 1, ""))
          [] c = "[" /\ Char(s, p) = "]" -> Parsed(JArr(<<>>), p + 1)
          [] c = "["  -> Arr(ParseElems(s, p, <<>>))
          [] c = "{" /\ Char(s, p) = "}" -> Parsed(JObj(<<>>), p + 1)
          [] c = "{"  -> Obj(ParseMembers(s, p, <<>>))
          [] c = "-" \/ IsDigit(c) -> ParseNumber(s, pos)
          [] OTHER    -> Fail

\* serde_json::from_str reads one value and then only whitespace (Deserializer::end)
ParseJson(s) ==
    LET End(r) == IF r.ok /\ SkipWs(s, r.pos) = Len(s) + 1 THEN r ELSE Fail
    IN  End(ParseValue(s, SkipWs(s, 1)))

(***************************************************************************)
(* serde's Deserialize for the field types, reading a parsed JSON value,   *)
(* and the derived struct visitors (visit_map and visit_seq).              *)
(***************************************************************************)
Ok(v) == [ok |-> TRUE, val |-> v]

Err(e) == [ok |-> FALSE, err |-> e]

None == [some |-> FALSE]

Some(x) == [some |-> TRUE, v |-> x]

DeString(v) == IF v.t = "str" THEN Ok(v.s) ELSE Err("invalid type")

DeBool(v) == IF v.t = "bool" THEN Ok(v.b) ELSE Err("invalid type")

\* a u64 takes a non-negative integer literal that fits; a negative integer is
\* an invalid value, a float (fraction, exponent, -0, out of range) an invalid type
DeU64(v) ==
    IF v.t # "num" THEN Err("invalid type")
    ELSE IF v.kind = "u64" THEN Ok(v.u)
    ELSE IF v.kind = "i64" THEN Err("invalid value")
    ELSE Err("invalid type")

DeVecString(v) ==
    IF v.t # "arr" THEN Err("invalid type")
    ELSE IF \E i \in 1..Len(v.items) : v.items[i].t # "str" THEN Err("invalid type")
    ELSE Ok([i \in 1..Len(v.items) |-> v.items[i].s])

\* a faulty variant of DeOptionVecString that reads null as the empty array
DeOptionVecStringEmpty(v) ==
    IF v.t = "null" THEN Ok(Some(<<>>))
    ELSE LET r == DeVecString(v) IN IF r.ok THEN Ok(Some(r.val)) ELSE r

\* Option<T>: null is None, anything else is Some of T's own decoding
DeOptionVecString(v) ==
    IF v.t = "null" THEN Ok(None)
    ELSE LET r == DeVecString(v) IN IF r.ok THEN Ok(Some(r.val)) ELSE r

\* a faulty variant of MissingField that fills an absent field with a default
MissingFieldDefault(f) ==
    CASE f.ty = "String"      -> Ok("")
      [] f.ty = "Vec<String>" -> Ok(<<>>)
      [] f.ty = "u64"         -> Ok(U64Zero)
      [] OTHER                -> Ok(None)

\* a faulty variant of MissingField that refuses an absent Option too
MissingFieldStrict(f) == Err("missing field")

\* a field absent from the object: None for an Option, an error otherwise
MissingField(f) ==
    IF f.ty = "Option<Vec<String>>" THEN Ok(None) ELSE Err("missing field")


(***************************************************************************)
(* f64.  A finite value is digits * 10^exp with digits a decimal numeral   *)
(* without leading or trailing zeros ("" for zero).  str::parse::<f64> is  *)
(* correctly rounded and every decimal of at most 15 significant digits    *)
(* has its own f64, which prints back as that decimal, so within that      *)
(* length two texts give the same f64 exactly when they give the same      *)
(* digits and exp.  Values past the f64 range become infinite or zero.     *)
(***************************************************************************)
Finite(neg, digits, exp) == [cls |-> "finite", neg |-> neg, digits |-> digits, exp |-> exp]

Infinite(neg) == [cls |-> "inf", neg |-> neg, digits |-> "", exp |-> 0]

NaN == [cls |-> "nan", neg |-> FALSE, digits |-> "", exp |-> 0]

\* the decimal exponent above which a value is beyond f64::MAX (1.7976931348623157e308)
F64MaxExp10 == 309

\* the decimal exponent below which a value rounds to zero (5e-324 is the least)
F64MinExp10 == -324

\* f64's PartialEq: NaN equals nothing, the two zeros are equal
F64Eq(a, b) ==
    /\ a.cls # "nan"
    /\ b.cls # "nan"
    /\ a.cls = b.cls
    /\ a.digits = b.digits
    /\ a.exp = b.exp
    /\ (a.neg = b.neg \/ (a.cls = "finite" /\ a.digits = ""))

IsZeroChar(c) == c = "0"

StripLeadingZeros(d) == SubSeq(d, ScanWhile(IsZeroChar, d, 1), Len(d))

\* a faulty variant of StripTrailingZeros that keeps them as digits
StripTrailingZerosNone(d) == [digits |-> d, n |-> 0]

\* [digits, n]: d without its trailing zeros and how many there were
StripTrailingZeros(d) ==
    LET last == CHOOSE p \in 0..Len(d) :
                    /\ Char(d, p) # "0"
                    /\ \A q \in (p + 1)..Len(d) : Char(d, q) = "0"
    IN  [digits |-> SubSeq(d, 1, last), n |-> Len(d) - last]

\* ASCII lower case of the letters of "infinity" and "nan"
LowerChar(c) ==
    CASE c = "I" -> "i"
      [] c = "N" -> "n"
      [] c = "F" -> "f"
      [] c = "T" -> "t"
      [] c = "Y" -> "y"
      [] c = "A" -> "a"
      [] OTHER   -> c

RECURSIVE LowerRange(_, _, _)
LowerRange(s, lo, hi) ==
    CASE lo > hi -> ""
      [] lo = hi -> LowerChar(Char(s, lo))
      [] OTHER   -> LET mid == (lo + hi) \div 2
                    IN  LowerRange(s, lo, mid) \o LowerRange(s, mid + 1, hi)

\* the text from pos on in lower case when it is short enough to be a special
\* word ("infinity" has eight letters), "" otherwise
SpecialWord(s, pos) ==
    IF Len(s) - pos + 1 <= Len("infinity") THEN LowerRange(s, pos, Len(s)) ELSE ""

\* the value of int.frac * 10^e10
Decimal(neg, int, frac, e10) ==
    LET lead == StripLeadingZeros(int \o frac)
        Stripped(st) ==
            LET exp == e10 - Len(frac) + st.n IN
            CASE Len(st.digits) + exp > F64MaxExp10 -> Infinite(neg)
              [] Len(st.digits) + exp < F64MinExp10 -> Finite(neg, "", 0)
              [] OTHER                              -> Finite(neg, st.digits, exp)
    IN  IF lead = "" THEN Finite(neg, "", 0) ELSE Stripped(StripTrailingZeros(lead))

\* <f64 as FromStr>::from_str (core::num::dec2flt):
\*   Float  ::= Sign? ( 'inf' | 'infinity' | 'nan' | Number )   letters in any case
\*   Number ::= ( Digit+ | Digit+ '.' Digit* | Digit* '.' Digit+ ) Exp?
\*   Exp    ::= 'e' Sign? Digit+
ParseF64(s) ==
    LET neg  == Char(s, 1) = "-"
        p0   == IF Char(s, 1) = "+" \/ Char(s, 1) = "-" THEN 2 ELSE 1
        word == SpecialWord(s, p0)
        Number(p1, p2) ==
            LET int   == SubSeq(s, p0, p1 - 1)
                frac  == IF p2 > p1 THEN SubSeq(s, p1 + 1, p2 - 1) ELSE ""
                hasEx == Char(s, p2) = "e" \/ Char(s, p2) = "E"
                eNeg  == Char(s, p2 + 1) = "-"
                p3    == IF Char(s, p2 + 1) = "+" \/ eNeg THEN p2 + 2 ELSE p2 + 1
                p4    == IF hasEx THEN SkipDigits(s, p3) ELSE p2
                eAbs  == IF hasEx THEN DigitsToNat(s, p3, p4 - 1) ELSE 0
            IN  CASE int = "" /\ frac = "" -> Err("invalid float literal")
                  [] hasEx /\ p4 = p3      -> Err("invalid float literal")
                  [] p4 # Len(s) + 1       -> Err("invalid float literal")
                  [] OTHER -> Ok(Decimal(neg, int, frac, IF eNeg THEN 0 - eAbs ELSE eAbs))
        Integer(p1) == Number(p1, IF Char(s, p1) = "." THEN SkipDigits(s, p1 + 1) ELSE p1)
    IN  CASE word = "inf" \/ word = "infinity" -> Ok(Infinite(neg))
          [] word = "nan"                      -> Ok(NaN)
          [] OTHER                             -> Integer(SkipDigits(s, p0))

\* serde_json's serialize_f64: null for a non-finite value, else ryu's shortest text
WriteF64(x) ==
    IF x.cls # "finite" THEN "null"
    ELSE LET sign == IF x.neg THEN "-" ELSE ""
             d    == x.digits
             len  == Len(d)
             k    == x.exp
             kk   == len + k
         IN  IF d = "" THEN sign \o "0.0"
             ELSE IF 0 <= k /\ kk <= 16 THEN sign \o d \o Zeros(k) \o ".0"
             ELSE IF 0 < kk /\ kk <= 16
                  THEN sign \o SubSeq(d, 1, kk) \o "." \o SubSeq(d, kk + 1, len)
             ELSE IF -5 < kk /\ kk <= 0 THEN sign \o "0." \o Zeros(0 - kk) \o d
             ELSE IF len = 1 THEN sign \o d \o "e" \o IntToString(kk - 1)
             ELSE sign \o Char(d, 1) \o "." \o SubSeq(d, 2, len) \o "e" \o IntToString(kk - 1)

(***************************************************************************)
(* The coercion helpers of websocket.rs.                                   *)
(***************************************************************************)
\* a faulty variant of de_string_to_f64 that also takes a bare integer
de_string_or_number_to_f64(v) ==
    LET s == DeString(v)
        Number(r) == IF r.ok THEN r ELSE Err("custom")
    IN  CASE v.t = "num" /\ v.kind = "u64" -> Ok(Decimal(FALSE, U64ToString(v.u), "", 0))
          [] v.t = "num"                   -> Ok(Finite(v.kind = "i64", "1", 0))
          [] OTHER -> IF s.ok THEN Number(ParseF64(s.val)) ELSE s

de_string_to_f64(v) ==
    LET s == DeString(v)
        Number(r) == IF r.ok THEN r ELSE Err("custom")
    IN  IF s.ok THEN Number(ParseF64(s.val)) ELSE s

\* a faulty variant of de_from_str that reads anything else as None
de_from_str_or_none(v) ==
    CASE v.t = "str"  -> Ok(Some(v.s))
      [] v.t = "bool" -> Ok(Some(IF v.b THEN "true" ELSE "false"))
      [] OTHER        -> Ok(None)

de_from_str(v) ==
    CASE v.t = "str"  -> Ok(Some(v.s))
      [] v.t = "bool" -> Ok(Some(IF v.b THEN "true" ELSE "false"))
      [] OTHER        -> Err("custom")

(***************************************************************************)
(* The derived Deserialize of a struct.  A field is a record [name, alias, *)
(* ty]; it is recognised under its renamed name and under its alias.       *)
(***************************************************************************)
DeField(f, v) ==
    CASE f.ty = "String"              -> DeString(v)
      [] f.ty = "u64"                 -> DeU64(v)
      [] f.ty = "bool"                -> DeBool(v)
      [] f.ty = "Vec<String>"         -> DeVecString(v)
      [] f.ty = "Option<Vec<String>>" -> DeOptionVecString(v)
      [] f.ty = "de_string_to_f64"    -> de_string_to_f64(v)

\* the index of the field a key names, 0 for an unknown key (which is ignored)
FieldIndex(fields, key) ==
    LET hits == {j \in 1..Len(fields) :
                    key = fields[j].key \/ key = fields[j].alias}
    IN  IF hits = {} THEN 0 ELSE CHOOSE j \in hits : TRUE

\* slots[j] is <<>> until field j is read and <<value>> after
RECURSIVE FillMissing(_, _, _)
FillMissing(fields, slots, j) ==
    IF j > Len(fields) THEN Ok(slots)
    ELSE IF slots[j] # <<>> THEN FillMissing(fields, slots, j + 1)
    ELSE LET r == MissingField(fields[j]) IN
         IF ~r.ok THEN r
         ELSE FillMissing(fields, [slots EXCEPT ![j] = <<r.val>>], j + 1)

RECURSIVE VisitMap(_, _, _, _)
VisitMap(fields, members, i, slots) ==
    LET j == FieldIndex(fields, members[i].k)
        Store(r) ==
            IF r.ok THEN VisitMap(fields, members, i + 1, [slots EXCEPT ![j] = <<r.val>>])
            ELSE r
    IN  CASE i > Len(members) -> FillMissing(fields, slots, 1)
          [] j = 0            -> VisitMap(fields, members, i + 1, slots)
          [] slots[j] # <<>>  -> Err("duplicate field")
          [] OTHER            -> Store(DeField(fields[j], members[i].v))

\* a JSON array is read field by field in declaration order and must end there:
\* Ok of the slots from field j on
RECURSIVE VisitSeq(_, _, _)
VisitSeq(fields, items, j) ==
    LET Cons(r, rest) == IF rest.ok THEN Ok(<< <<r.val>> >> \o rest.val) ELSE rest
        First(r) == IF r.ok THEN Cons(r, VisitSeq(fields, items, j + 1)) ELSE r
    IN  CASE j > Len(fields) /\ Len(items) > Len(fields) -> Err("trailing characters")
          [] j > Len(fields) -> Ok(<<>>)
          [] j > Len(items)  -> Err("invalid length")
          [] OTHER           -> First(DeField(fields[j], items[j]))

\* serde_json::from_str::<T> for a struct T with these fields: Ok of the
\* field values in declaration order
DeStruct(fields, s) ==
    LET Visit(p) ==
            CASE ~p.ok         -> Err("syntax")
              [] p.v.t = "obj" ->
                    VisitMap(fields, p.v.members, 1, [j \in 1..Len(fields) |-> <<>>])
              [] p.v.t = "arr" -> VisitSeq(fields, p.v.items, 1)
              [] OTHER         -> Err("invalid type")
    IN  Visit(ParseJson(s))


(***************************************************************************)
(* Texts handed to the decoders.  A text is assembled from parts: for each *)
(* field the JSON text of its value ("" leaves the field out), and one     *)
(* variation of the plain object.  The parts are kept in src.              *)
(***************************************************************************)
RECURSIVE Join(_, _)
Join(parts, i) ==
    IF i > Len(parts) THEN ""
    ELSE (IF i > 1 THEN "," ELSE "") \o parts[i] \o Join(parts, i + 1)

Present(parts) == SelectSeq(parts, LAMBDA m : m.value # "")

Reverse(xs) == [i \in 1..Len(xs) |-> xs[Len(xs) + 1 - i]]

Pair(m) == "\"" \o m.key \o "\":" \o m.value

\* members is a sequence of [key, value]; extra is a sequence of further members
ObjectText(members, extra) ==
    LET ms == Present(members) \o extra
    IN  "{" \o Join([i \in 1..Len(ms) |-> Pair(ms[i])], 1) \o "}"

ArrayText(members) ==
    LET ms == Present(members)
    IN  "[" \o Join([i \in 1..Len(ms) |-> ms[i].value], 1) \o "]"

Variations ==
    {"plain", "reversed", "unknown key", "repeated key", "array", "bare", "spaced",
     "truncated", "trailing"}

\* the text of the members under a variation; again is the index of the
\* member that "repeated key" writes a second time
InputText(members, again, variation) ==
    LET plain == ObjectText(members, <<>>) IN
    CASE variation = "plain"        -> plain
      [] variation = "reversed"     -> ObjectText(Reverse(members), <<>>)
      [] variation = "unknown key"  ->
            ObjectText(members, <<[key |-> "x", value |-> "{\"y\":[1,null]}"]>>)
      [] variation = "repeated key" -> ObjectText(members \o <<members[again]>>, <<>>)
      [] variation = "array"        -> ArrayText(members)
      [] variation = "bare"         -> members[Len(members)].value
      [] variation = "spaced"       -> " " \o plain \o "\n"
      [] variation = "truncated"    -> SubSeq(plain, 1, Len(plain) - 1)
      [] variation = "trailing"     -> plain \o "}"

(***************************************************************************)
(* SubscriptionRequest.                                                    *)
(***************************************************************************)
New(id) == [method |-> "SUBSCRIBE", params |-> <<>>, id |-> id]

\* a faulty variant of add_stream that puts the new stream first
add_stream_front(r, stream) == [r EXCEPT !.params = <<stream>> \o r.params]

add_stream(r, stream) == [r EXCEPT !.params = Append(r.params, stream)]

SubscriptionRequestFields ==
    << Field("method", "method", "String"),
       Field("params", "params", "Vec<String>"),
       Field("id", "id", "u64") >>

\* a faulty variant of to_json that writes id before params
to_json_id_first(r) ==
    "{" \o WriteKey(SubscriptionRequestFields[1]) \o WriteString(r.method)
        \o "," \o WriteKey(SubscriptionRequestFields[3]) \o U64ToString(r.id)
        \o "," \o WriteKey(SubscriptionRequestFields[2]) \o WriteStringSeq(r.params)
        \o "}"

\* the derived Serialize: the fields in declaration order
to_json(r) ==
    "{" \o WriteKey(SubscriptionRequestFields[1]) \o WriteString(r.method)
        \o "," \o WriteKey(SubscriptionRequestFields[2]) \o WriteStringSeq(r.params)
        \o "," \o WriteKey(SubscriptionRequestFields[3]) \o U64ToString(r.id)
        \o "}"

\* serde_json::from_str::<SubscriptionRequest>
SubscriptionRequestFromStr(s) ==
    LET Build(r) ==
            IF r.ok THEN Ok([method |-> r.val[1][1], params |-> r.val[2][1], id |-> r.val[3][1]])
            ELSE r
    IN  Build(DeStruct(SubscriptionRequestFields, s))

(***************************************************************************)
(* Assembling, encoding and reading back a SubscriptionRequest.            *)
(***************************************************************************)
Ids == {U64Zero, <<789, 0, 0, 0>>, U64Max}

Streams == {"btcusdt@ticker", "ethusdt@kline_1m", "a\"b\\c\n", ""}

NoResult == Err("no call yet")

InitReq ==
    \E id \in Ids :
        /\ req = New(id)
        /\ calls = [id |-> id, streams |-> <<>>]
        /\ text = ""
        /\ src = New(id)
        /\ out = NoResult
        /\ op = "new"

AddStream(stream) ==
    /\ Len(req.params) < MaxStreams
    /\ req' = add_stream(req, stream)
    /\ calls' = [calls EXCEPT !.streams = Append(@, stream)]
    /\ op' = "add_stream"
    /\ UNCHANGED <<text, src, out>>

ToJson ==
    /\ text' = to_json(req)
    /\ src' = req
    /\ out' = Ok(to_json(req))
    /\ op' = "to_json"
    /\ UNCHANGED <<req, calls>>

\* the text of the last to_json read back with serde_json::from_str
RequestFromStr ==
    /\ op \in {"to_json", "add_stream", "from_str"}
    /\ text # ""
    /\ out' = SubscriptionRequestFromStr(text)
    /\ op' = "from_str"
    /\ UNCHANGED <<req, calls, text, src>>

NextReq ==
    \/ \E stream \in Streams : AddStream(stream)
    \/ ToJson
    \/ RequestFromStr

SpecReq == InitReq /\ [][NextReq]_vars

\* what the texts of the sample ids and streams must be, written out by hand
IdDecimal(id) ==
    CASE id = U64Zero         -> "0"
      [] id = <<789, 0, 0, 0>> -> "789"
      [] id = U64Max          -> "18446744073709551615"

StreamJson(stream) ==
    CASE stream = "btcusdt@ticker"   -> "\"btcusdt@ticker\""
      [] stream = "ethusdt@kline_1m" -> "\"ethusdt@kline_1m\""
      [] stream = "a\"b\\c\n"        -> "\"a\\\"b\\\\c\\n\""
      [] stream = ""                 -> "\"\""

ExpectedRequestText(r) ==
    "{\"method\":\"SUBSCRIBE\",\"params\":["
        \o Join([i \in 1..Len(r.params) |-> StreamJson(r.params[i])], 1)
        \o "],\"id\":" \o IdDecimal(r.id) \o "}"

\* C1: a request built by new and add_stream calls encodes without error, and
\* the text of to_json read back as a SubscriptionRequest is Ok of a request
\* equal to the encoded one: same method, same params sequence, same id.
C1_RoundTrip ==
    /\ op = "to_json" => out.ok /\ out.val = text
    /\ op = "from_str" =>
          /\ out.ok
          /\ out.val.method = src.method
          /\ out.val.params = src.params
          /\ out.val.id = src.id
          /\ out.val = src

\* the largest id and a repeated stream name with a quote, a backslash and a
\* line feed have made the round trip
C1_Witness ==
    /\ op = "from_str"
    /\ src.id = U64Max
    /\ src.params = <<"a\"b\\c\n", "a\"b\\c\n">>
    /\ out = Ok(src)

\* C2: to_json yields exactly {"method":<method>,"params":[<params in stored
\* order>],"id":<id>}: keys method, params, id in that order, no whitespace,
\* no other key; the request SUBSCRIBE, [btcusdt@ticker, ethusdt@kline_1m],
\* 789 gives the literal text of the example.
C2_ExactText ==
    op = "to_json" =>
        /\ out = Ok(ExpectedRequestText(src))
        /\ text = ExpectedRequestText(src)
        /\ ( /\ src.id = <<789, 0, 0, 0>>
             /\ src.params = <<"btcusdt@ticker", "ethusdt@kline_1m">> ) =>
             text = "{\"method\":\"SUBSCRIBE\",\"params\":[\"btcusdt@ticker\",\"ethusdt@kline_1m\"],\"id\":789}"

C2_Witness ==
    /\ op = "to_json"
    /\ src = [method |-> "SUBSCRIBE", params |-> <<"btcusdt@ticker", "ethusdt@kline_1m">>,
              id |-> <<789, 0, 0, 0>>]
    /\ text = "{\"method\":\"SUBSCRIBE\",\"params\":[\"btcusdt@ticker\",\"ethusdt@kline_1m\"],\"id\":789}"

\* C3: after new(id) and add_stream(s1), ..., add_stream(sn) the params are
\* exactly <<s1, ..., sn>> in call order with duplicates kept, the method is
\* SUBSCRIBE and the id is the one passed to new; each add_stream changes only
\* params, keeps the earlier entries and grows the length by exactly one.
C3_AppendOnly ==
    /\ [](/\ req.params = calls.streams
          /\ req.method = "SUBSCRIBE"
          /\ req.id = calls.id)
    /\ [][ /\ calls'.streams # calls.streams => req' # req
           /\ req' # req =>
                /\ Len(req'.params) = Len(req.params) + 1
                /\ SubSeq(req'.params, 1, Len(req.params)) = req.params
                /\ req'.params[Len(req'.params)] = calls'.streams[Len(calls'.streams)]
                /\ req'.method = req.method
                /\ req'.id = req.id ]_vars

\* add_stream has been called as often as the bound allows, with different
\* first and last streams
C3_Witness ==
    /\ op = "add_stream"
    /\ Len(req.params) = MaxStreams
    /\ req.params[1] # req.params[MaxStreams]
    /\ calls.streams = req.params

(***************************************************************************)
(* Decoding a SubscriptionRequest from a text.                             *)
(***************************************************************************)
MethodTexts == {"", "\"SUBSCRIBE\"", "\"\"", "5", "null"}

ParamsTexts == {"", "[]", "[\"btcusdt@ticker\"]", "[\"a\\\"b\",\"a\\\"b\"]", "[1]", "\"x\"", "null"}

IdTexts ==
    {"", "100", "0", "18446744073709551615", "18446744073709551616", "-1", "1.5",
     "1e2", "-0", "\"7\"", "null"}

RequestMembers(d) ==
    << [key |-> "method", value |-> d.method],
       [key |-> "params", value |-> d.params],
       [key |-> "id", value |-> d.id] >>

\* again is the member that the variation "repeated key" writes twice
RequestInputs ==
    {d \in [method : MethodTexts, params : ParamsTexts, id : IdTexts,
            variation : Variations, again : 1..3] :
        d.variation # "repeated key" => d.again = 3}

InitReqDecode ==
    \E d \in RequestInputs :
        /\ src = d
        /\ text = InputText(RequestMembers(d), d.again, d.variation)
        /\ req = New(U64Zero)
        /\ calls = [id |-> U64Zero, streams |-> <<>>]
        /\ out = NoResult
        /\ op = "input"

DecodeRequest ==
    /\ op = "input"
    /\ out' = SubscriptionRequestFromStr(text)
    /\ op' = "decoded"
    /\ UNCHANGED <<req, calls, text, src>>

NextReqDecode == DecodeRequest

SpecReqDecode == InitReqDecode /\ [][NextReqDecode]_vars

\* what the well-typed value texts stand for, written out by hand
MethodValue(t) ==
    CASE t = "\"SUBSCRIBE\"" -> "SUBSCRIBE"
      [] t = "\"\""          -> ""

ParamsValue(t) ==
    CASE t = "[]"                     -> <<>>
      [] t = "[\"btcusdt@ticker\"]"   -> <<"btcusdt@ticker">>
      [] t = "[\"a\\\"b\",\"a\\\"b\"]" -> <<"a\"b", "a\"b">>

IdValue(t) ==
    CASE t = "100"                  -> <<100, 0, 0, 0>>
      [] t = "0"                    -> U64Zero
      [] t = "18446744073709551615" -> U64Max

StringTexts == {"\"SUBSCRIBE\"", "\"\""}

StringSeqTexts == {"[]", "[\"btcusdt@ticker\"]", "[\"a\\\"b\",\"a\\\"b\"]"}

U64Texts == {"100", "0", "18446744073709551615"}

\* C7: decoding a text as a SubscriptionRequest is an error whenever method,
\* params or id is absent, has the wrong JSON type, or id is negative,
\* fractional or above 2^64-1; it is Ok only when all three are present and
\* well-typed, and then the request is the one the text describes, never a
\* partially filled one.
C7_RequestDecodeErrors ==
    op = "decoded" =>
        /\ ( \/ src.method \notin StringTexts
             \/ src.params \notin StringSeqTexts
             \/ src.id \notin U64Texts ) => ~out.ok
        /\ out.ok =>
             /\ src.method \in StringTexts
             /\ src.params \in StringSeqTexts
             /\ src.id \in U64Texts
             /\ out.val = [method |-> MethodValue(src.method),
                           params |-> ParamsValue(src.params),
                           id |-> IdValue(src.id)]

\* a text with method and params but no id has been refused
C7_Witness ==
    /\ op = "decoded"
    /\ src.variation = "plain"
    /\ src.method = "\"SUBSCRIBE\""
    /\ src.params = "[\"btcusdt@ticker\"]"
    /\ src.id = ""
    /\ ~out.ok

(***************************************************************************)
(* SubscriptionResponse.                                                   *)
(***************************************************************************)
SubscriptionResponseFields ==
    << Field("result", "result", "Option<Vec<String>>"),
       Field("id", "id", "u64") >>

SubscriptionResponse_from_json(json) ==
    LET Build(r) == IF r.ok THEN Ok([result |-> r.val[1][1], id |-> r.val[2][1]]) ELSE r
    IN  Build(DeStruct(SubscriptionResponseFields, json))

ResultTexts ==
    {"", "null", "[]", "[\"btcusdt@ticker\",\"ethusdt@depth\"]", "[1]", "[null]",
     "\"x\"", "{}", "5", "true"}

ResponseMembers(d) ==
    << [key |-> "result", value |-> d.result],
       [key |-> "id", value |-> d.id] >>

ResponseInputs ==
    {d \in [result : ResultTexts, id : IdTexts, variation : Variations, again : 1..2] :
        d.variation # "repeated key" => d.again = 2}

ResponseText(d) == InputText(ResponseMembers(d), d.again, d.variation)

InitResp ==
    \E d \in ResponseInputs :
        /\ src = d
        /\ text = ResponseText(d)
        /\ req = New(U64Zero)
        /\ calls = [id |-> U64Zero, streams |-> <<>>]
        /\ out = NoResult
        /\ op = "input"

DecodeResponse ==
    /\ op = "input"
    /\ out' = SubscriptionResponse_from_json(text)
    /\ op' = "decoded"
    /\ UNCHANGED <<req, calls, text, src>>

NextResp == DecodeResponse

SpecResp == InitResp /\ [][NextResp]_vars

\* what the well-typed result texts stand for, written out by hand
ResultValue(t) ==
    CASE t = ""     -> None
      [] t = "null" -> None
      [] t = "[]"   -> Some(<<>>)
      [] t = "[\"btcusdt@ticker\",\"ethusdt@depth\"]" ->
            Some(<<"btcusdt@ticker", "ethusdt@depth">>)

ResultArrayTexts == {"[]", "[\"btcusdt@ticker\",\"ethusdt@depth\"]"}

\* the variations that leave a JSON object whose keys occur once
ObjectVariations == {"plain", "reversed", "unknown key", "spaced"}

\* C4: from_json maps a null result to None and an array of strings to Some,
\* the empty array to Some of the empty sequence; for the same id the value
\* decoded from {"result":null,"id":N} differs from the value decoded from
\* {"result":[],"id":N}.
C4_NullIsNotEmpty ==
    (op = "decoded" /\ src.variation \in ObjectVariations /\ src.id \in U64Texts) =>
        /\ src.result = "null" =>
              /\ out = Ok([result |-> None, id |-> IdValue(src.id)])
              /\ out # SubscriptionResponse_from_json(ResponseText([src EXCEPT !.result = "[]"]))
        /\ src.result = "[]" =>
              /\ out = Ok([result |-> Some(<<>>), id |-> IdValue(src.id)])
              /\ out # SubscriptionResponse_from_json(ResponseText([src EXCEPT !.result = "null"]))
        /\ src.result \in ResultArrayTexts =>
              /\ out.ok
              /\ out.val.result.some
              /\ out.val.result = ResultValue(src.result)

\* {"result":[],"id":18446744073709551615} has been decoded to a present,
\* empty result
C4_Witness ==
    /\ op = "decoded"
    /\ src.variation = "plain"
    /\ src.result = "[]"
    /\ src.id = "18446744073709551615"
    /\ out.ok
    /\ out.val.result = Some(<<>>)

Malformed(d) == d.variation \in {"truncated", "trailing"} \/ (d.variation = "bare" /\ d.id = "")

BadId(d) == d.id \notin U64Texts

BadResult(d) == d.result \notin ({"", "null"} \cup ResultArrayTexts)

\* C8 as the spec states it: from_json returns an error exactly when the text
\* is malformed JSON, id is missing or not a u64, or result is present and
\* neither null nor an array of strings.  (A top-level array is left aside.)
C8_AsStated ==
    (op = "decoded" /\ src.variation # "array") =>
        (~out.ok <=> (Malformed(src) \/ src.variation = "bare" \/ BadId(src) \/ BadResult(src)))

\* C8: from_json returns an error exactly when the text is malformed JSON, its
\* top-level value is neither an object nor an array of exactly the two
\* elements result and id, id is missing or not a u64, result is present and
\* neither null nor an array of strings, or the object has the key result or
\* id twice; an object with a valid id and no result key decodes to the absent
\* state, the same value as an explicit null result.
C8_ResponseErrors ==
    op = "decoded" =>
        /\ ~out.ok <=>
              \/ Malformed(src)
              \/ src.variation = "bare"
              \/ src.variation = "array" /\ (src.result = "" \/ src.id = "")
              \/ BadId(src)
              \/ BadResult(src)
              \/ src.variation = "repeated key" /\ ResponseMembers(src)[src.again].value # ""
        /\ out.ok => out.val = [result |-> ResultValue(src.result), id |-> IdValue(src.id)]
        /\ (out.ok /\ src.result = "") =>
              out = SubscriptionResponse_from_json(
                        ResponseText([src EXCEPT !.result = "null", !.variation = "plain"]))

\* {"id":100} has been decoded to the absent state
C8_Witness ==
    /\ op = "decoded"
    /\ src.variation = "plain"
    /\ src.result = ""
    /\ src.id = "100"
    /\ text = "{\"id\":100}"
    /\ out = Ok([result |-> None, id |-> <<100, 0, 0, 0>>])

(***************************************************************************)
(* Trade.                                                                  *)
(***************************************************************************)
TradeFields ==
    << Field("event_type", "e", "String"),
       Field("event_time", "E", "u64"),
       Field("symbol", "s", "String"),
       Field("trade_id", "t", "u64"),
       Field("price", "p", "de_string_to_f64"),
       Field("quantity", "q", "de_string_to_f64"),
       Field("trade_time", "T", "u64"),
       Field("is_buyer_market_maker", "m", "bool"),
       Field("ignore", "M", "bool") >>

Trade_from_json(json) ==
    LET Build(r) ==
            IF r.ok
            THEN Ok([event_type |-> r.val[1][1], event_time |-> r.val[2][1],
                     symbol |-> r.val[3][1], trade_id |-> r.val[4][1],
                     price |-> r.val[5][1], quantity |-> r.val[6][1],
                     trade_time |-> r.val[7][1], is_buyer_market_maker |-> r.val[8][1],
                     ignore |-> r.val[9][1]])
            ELSE r
    IN  Build(DeStruct(TradeFields, json))

WriteBool(b) == IF b THEN "true" ELSE "false"

\* the derived Serialize through serde_json::to_string: the fields in
\* declaration order under their kebab-case names
TradeToString(t) ==
    "{" \o WriteKey(TradeFields[1]) \o WriteString(t.event_type)
        \o "," \o WriteKey(TradeFields[2]) \o U64ToString(t.event_time)
        \o "," \o WriteKey(TradeFields[3]) \o WriteString(t.symbol)
        \o "," \o WriteKey(TradeFields[4]) \o U64ToString(t.trade_id)
        \o "," \o WriteKey(TradeFields[5]) \o WriteF64(t.price)
        \o "," \o WriteKey(TradeFields[6]) \o WriteF64(t.quantity)
        \o "," \o WriteKey(TradeFields[7]) \o U64ToString(t.trade_time)
        \o "," \o WriteKey(TradeFields[8]) \o WriteBool(t.is_buyer_market_maker)
        \o "," \o WriteKey(TradeFields[9]) \o WriteBool(t.ignore)
        \o "}"

\* the derived PartialEq
TradeEq(a, b) ==
    /\ a.event_type = b.event_type
    /\ a.event_time = b.event_time
    /\ a.symbol = b.symbol
    /\ a.trade_id = b.trade_id
    /\ F64Eq(a.price, b.price)
    /\ F64Eq(a.quantity, b.quantity)
    /\ a.trade_time = b.trade_time
    /\ a.is_buyer_market_maker = b.is_buyer_market_maker
    /\ a.ignore = b.ignore

(***************************************************************************)
(* Decoding a Trade from a text, encoding a Trade and decoding the result. *)
(***************************************************************************)
\* plain decimal numbers in a JSON string
DecimalTexts ==
    {"\"4532.56000000\"", "\"4532.56\"", "\"0.01320000\"", "\"0.0132\"", "\"0\"",
     "\"0.00\"", "\"-1.5\"", "\"100\""}

\* other spellings that f64's parser takes
LooseDecimalTexts == {"\"1e3\"", "\".5\"", "\"5.\"", "\"+1\"", "\"1e999\""}

\* values that are no JSON string holding a decimal number
NonDecimalTexts ==
    {"\"not-a-number\"", "\"\"", "\"inf\"", "\"infinity\"", "\"NaN\"", "\"-Inf\"",
     "4532.56", "1", "null", "true", "[\"1\"]", "\" 1\"", "\"1,5\"", "\"1e\"", "\".\"",
     "\"0x10\"", "\"q\""}

PTexts == DecimalTexts \cup LooseDecimalTexts \cup NonDecimalTexts \cup {""}

QTexts == {"\"0.01320000\"", "\"0.0132\"", "\"NaN\"", "\"q\"", "1", ""}

\* the input of test_trade_serialization
BaseTrade ==
    [e |-> "\"trade\"", E |-> "1759680390108723", s |-> "\"ETHUSDT\"",
     t |-> "2921785139", p |-> "\"4532.56000000\"", q |-> "\"0.01320000\"",
     T |-> "1759680390108254", m |-> "true", M |-> "true",
     variation |-> "plain", again |-> 1]

TradeVariations == Variations \cup {"descriptive keys", "both keys"}

\* another value, well-typed or not, for one of the other fields
OtherValues ==
    { <<"e", "">>, <<"e", "5">>, <<"e", "\"\"">>,
      <<"E", "-1">>, <<"E", "0">>, <<"E", "18446744073709551615">>,
      <<"E", "18446744073709551616">>,
      <<"s", "null">>, <<"s", "\"a\\\"b\"">>,
      <<"t", "1.5">>, <<"t", "">>,
      <<"T", "\"1759680390108254\"">>, <<"T", "100">>,
      <<"m", "false">>, <<"m", "\"true\"">>, <<"m", "1">>,
      <<"M", "false">>, <<"M", "">>, <<"M", "null">> }

TradeInputs ==
    {[BaseTrade EXCEPT !.p = p, !.q = q, !.variation = va[1], !.again = va[2]] :
        p \in PTexts, q \in QTexts,
        va \in (TradeVariations \X {1})
                 \cup {<<"repeated key", 5>>, <<"both keys", 5>>, <<"both keys", 9>>}}
    \cup
    {[BaseTrade EXCEPT ![o[1]] = o[2], !.p = p, !.variation = v] :
        o \in OtherValues, p \in {"\"4532.56\"", "\"inf\"", "\"\""},
        v \in {"plain", "array", "descriptive keys"}}

\* the members under the single letters, or under the descriptive names
TradeMembers(d, descriptive) ==
    [j \in 1..Len(TradeFields) |->
        [key   |-> IF descriptive THEN TradeFields[j].key ELSE TradeFields[j].alias,
         value |-> d[TradeFields[j].alias]]]

TradeText(d) ==
    CASE d.variation = "descriptive keys" -> ObjectText(TradeMembers(d, TRUE), <<>>)
      [] d.variation = "both keys" ->
            ObjectText(TradeMembers(d, FALSE) \o <<TradeMembers(d, TRUE)[d.again]>>, <<>>)
      [] OTHER -> InputText(TradeMembers(d, FALSE), d.again, d.variation)

\* Trade values written as struct literals, the first the one of
\* test_trade_serialization
F64Samples ==
    {Finite(FALSE, "453256", -2), Finite(FALSE, "132", -4), Finite(TRUE, "", 0),
     Finite(FALSE, "1", 21), Finite(FALSE, "12", -8), NaN, Infinite(TRUE)}

TradeLiterals ==
    [event_type : {"trade", "a\"b"},
     event_time : {<<5683, 33938, 16491, 6>>},
     symbol : {"ETHUSDT"},
     trade_id : {<<59187, 44582, 0, 0>>, U64Max},
     price : F64Samples,
     quantity : {Finite(FALSE, "132", -4), Infinite(FALSE)},
     trade_time : {<<5214, 33938, 16491, 6>>},
     is_buyer_market_maker : BOOLEAN,
     ignore : {TRUE}]

InitTrade ==
    /\ req = New(U64Zero)
    /\ calls = [id |-> U64Zero, streams |-> <<>>]
    /\ \/ \E d \in TradeInputs :
            /\ src = d
            /\ text = TradeText(d)
            /\ out = NoResult
            /\ op = "input"
       \/ \E t \in TradeLiterals :
            /\ src = t
            /\ text = ""
            /\ out = Ok(t)
            /\ op = "literal"

DecodeTrade ==
    /\ op = "input"
    /\ out' = Trade_from_json(text)
    /\ op' = "decoded"
    /\ UNCHANGED <<req, calls, text, src>>

\* serde_json::to_string of a Trade, a literal or one that was decoded
SerializeTrade ==
    /\ op \in {"literal", "decoded"}
    /\ out.ok
    /\ text' = TradeToString(out.val)
    /\ src' = out.val
    /\ op' = "to_string"
    /\ UNCHANGED <<req, calls, out>>

DecodeSerialized ==
    /\ op = "to_string"
    /\ out' = Trade_from_json(text)
    /\ op' = "redecoded"
    /\ UNCHANGED <<req, calls, text, src>>

NextTrade ==
    \/ DecodeTrade
    \/ SerializeTrade
    \/ DecodeSerialized

SpecTrade == InitTrade /\ [][NextTrade]_vars

\* what the well-typed value texts stand for, written out by hand
TradeStringTexts == {"\"trade\"", "\"ETHUSDT\"", "\"\"", "\"a\\\"b\""}

TradeStringValue(t) ==
    CASE t = "\"trade\""    -> "trade"
      [] t = "\"ETHUSDT\""  -> "ETHUSDT"
      [] t = "\"\""         -> ""
      [] t = "\"a\\\"b\""   -> "a\"b"

TradeU64Texts ==
    {"1759680390108723", "2921785139", "1759680390108254", "0", "100",
     "18446744073709551615"}

TradeU64Value(t) ==
    CASE t = "1759680390108723"     -> <<5683, 33938, 16491, 6>>
      [] t = "2921785139"           -> <<59187, 44582, 0, 0>>
      [] t = "1759680390108254"     -> <<5214, 33938, 16491, 6>>
      [] t = "0"                    -> <<0, 0, 0, 0>>
      [] t = "100"                  -> <<100, 0, 0, 0>>
      [] t = "18446744073709551615" -> <<65535, 65535, 65535, 65535>>

BoolTexts == {"true", "false"}

DecimalValue(t) ==
    CASE t \in {"\"4532.56000000\"", "\"4532.56\""} -> Finite(FALSE, "453256", -2)
      [] t \in {"\"0.01320000\"", "\"0.0132\""}     -> Finite(FALSE, "132", -4)
      [] t \in {"\"0\"", "\"0.00\""}                -> Finite(FALSE, "", 0)
      [] t = "\"-1.5\""                             -> Finite(TRUE, "15", -1)
      [] t = "\"100\""                              -> Finite(FALSE, "1", 2)

WellTypedTrade(d) ==
    /\ d.e \in TradeStringTexts
    /\ d.E \in TradeU64Texts
    /\ d.s \in TradeStringTexts
    /\ d.t \in TradeU64Texts
    /\ d.p \in DecimalTexts
    /\ d.q \in DecimalTexts
    /\ d.T \in TradeU64Texts
    /\ d.m \in BoolTexts
    /\ d.M \in BoolTexts

ExpectedTrade(d) ==
    [event_type |-> TradeStringValue(d.e), event_time |-> TradeU64Value(d.E),
     symbol |-> TradeStringValue(d.s), trade_id |-> TradeU64Value(d.t),
     price |-> DecimalValue(d.p), quantity |-> DecimalValue(d.q),
     trade_time |-> TradeU64Value(d.T), is_buyer_market_maker |-> d.m = "true",
     ignore |-> d.M = "true"]

\* C5 as the spec states it: every JSON object that carries the nine
\* single-letter keys with well-typed values decodes to Ok of the Trade with
\* these values.
C5_AsStated ==
    ( /\ op = "decoded"
      /\ WellTypedTrade(src)
      /\ src.variation \in ObjectVariations \cup {"repeated key", "both keys"} ) =>
        /\ out.ok
        /\ TradeEq(out.val, ExpectedTrade(src))

\* C5: every JSON object that carries each of the nine single-letter keys
\* once, and no field a second time under its descriptive name, with
\* well-typed values decodes to Ok of the Trade with event_type=e,
\* event_time=E, symbol=s, trade_id=t, price=the value of p, quantity=the
\* value of q, trade_time=T, is_buyer_market_maker=m, ignore=M; inputs whose
\* p (or q) differ only by trailing zeros after the decimal point decode to
\* equal Trades.
C5_TradeDecode ==
    ( /\ op = "decoded"
      /\ WellTypedTrade(src)
      /\ src.variation \in ObjectVariations ) =>
        /\ out.ok
        /\ out.val = ExpectedTrade(src)
        /\ TradeEq(out.val, ExpectedTrade(src))
        /\ src.p = "\"4532.56000000\"" =>
              TradeEq(out.val, Trade_from_json(TradeText([src EXCEPT !.p = "\"4532.56\""])).val)
        /\ src.q = "\"0.01320000\"" =>
              TradeEq(out.val, Trade_from_json(TradeText([src EXCEPT !.q = "\"0.0132\""])).val)

\* the input of test_trade_serialization has been decoded to price 4532.56 and
\* quantity 0.0132
C5_Witness ==
    /\ op = "decoded"
    /\ src = BaseTrade
    /\ text = "{\"e\":\"trade\",\"E\":1759680390108723,\"s\":\"ETHUSDT\",\"t\":2921785139,\"p\":\"4532.56000000\",\"q\":\"0.01320000\",\"T\":1759680390108254,\"m\":true,\"M\":true}"
    /\ out.ok
    /\ out.val.price = Finite(FALSE, "453256", -2)
    /\ out.val.quantity = Finite(FALSE, "132", -4)

\* C6: from_json returns an error, never a Trade with a defaulted or
\* non-finite price or quantity, whenever the value under p or q is not a JSON
\* string holding a valid decimal number: non-numeric text, the empty string,
\* "inf", "infinity", "NaN", a bare JSON number.
C6_RejectsNonDecimal ==
    (op = "decoded" /\ (src.p \in NonDecimalTexts \/ src.q \in NonDecimalTexts)) =>
        ~out.ok

\* a text whose p is "inf" has been decoded to a Trade with an infinite price
C6_Witness ==
    /\ op = "decoded"
    /\ src = [BaseTrade EXCEPT !.p = "\"inf\""]
    /\ text = "{\"e\":\"trade\",\"E\":1759680390108723,\"s\":\"ETHUSDT\",\"t\":2921785139,\"p\":\"inf\",\"q\":\"0.01320000\",\"T\":1759680390108254,\"m\":true,\"M\":true}"
    /\ out.ok
    /\ out.val.price = Infinite(FALSE)

DescriptiveKeys ==
    <<"event-type", "event-time", "symbol", "trade-id", "price", "quantity",
      "trade-time", "is-buyer-market-maker", "ignore">>

\* C10: for every Trade t the text of serializing t has the descriptive
\* kebab-case keys, price and quantity not as JSON strings (bare numbers when
\* finite), and from_json rejects it: no Trade round-trips through serialize
\* and from_json.
C10_NoTradeRoundTrip ==
    op = "redecoded" =>
        LET v == ParseJson(text).v IN
        /\ ~out.ok
        /\ v.t = "obj"
        /\ [i \in 1..Len(v.members) |-> v.members[i].k] = DescriptiveKeys
        /\ v.members[5].v.t # "str"
        /\ v.members[6].v.t # "str"
        /\ src.price.cls = "finite" => v.members[5].v.t = "num"
        /\ src.quantity.cls = "finite" => v.members[6].v.t = "num"

\* the Trade of test_trade_serialization has been serialized and the text
\* refused
C10_Witness ==
    /\ op = "redecoded"
    /\ src = ExpectedTrade(BaseTrade)
    /\ text = "{\"event-type\":\"trade\",\"event-time\":1759680390108723,\"symbol\":\"ETHUSDT\",\"trade-id\":2921785139,\"price\":4532.56,\"quantity\":0.0132,\"trade-time\":1759680390108254,\"is-buyer-market-maker\":true,\"ignore\":true}"
    /\ ~out.ok

(***************************************************************************)
(* de_from_str on a deserializer over a JSON text.                         *)
(***************************************************************************)
HelperStrings ==
    DecimalTexts \cup LooseDecimalTexts \cup TradeStringTexts
        \cup {t \in NonDecimalTexts : Char(t, 1) = "\""}
        \cup {"\"true\"", "\"false\"", "\"null\"", "\"a\\nb\\t\\\\c\\/\"", "\"[1]\""}

HelperBools == {"true", "false"}

HelperNumbers ==
    {"0", "1", "100", "-1", "-0", "1.5", "1e2", "4532.56", "18446744073709551615",
     "18446744073709551616", "-9223372036854775808", "-9223372036854775809"}

HelperArrays == {"[]", "[\"x\"]", "[true]", "[1,null]", "[[\"x\"]]"}

HelperObjects == {"{}", "{\"a\":\"b\"}", "{\"x\":true}", "{\"y\":[1,null]}"}

HelperMalformed == {"", "tru", "\"open", "[\"x\"", "{\"a\"}", "nul", "01", "\"\\q\"", "True"}

HelperInputs ==
    [type : {"string"}, text : HelperStrings] \cup [type : {"bool"}, text : HelperBools]
        \cup [type : {"number"}, text : HelperNumbers]
        \cup [type : {"array"}, text : HelperArrays]
        \cup [type : {"object"}, text : HelperObjects]
        \cup [type : {"null"}, text : {"null"}]
        \cup [type : {"malformed"}, text : HelperMalformed]

InitHelper ==
    \E d \in HelperInputs, pad \in {"", " "} :
        /\ src = d
        /\ text = pad \o d.text \o pad
        /\ req = New(U64Zero)
        /\ calls = [id |-> U64Zero, streams |-> <<>>]
        /\ out = NoResult
        /\ op = "input"

\* de_from_str given serde_json's deserializer over text: Value::deserialize
\* reads the value, and its error is passed on
CallDeFromStr ==
    LET Coerce(p) == IF p.ok THEN de_from_str(p.v) ELSE Err("syntax") IN
    /\ op = "input"
    /\ out' = Coerce(ParseJson(text))
    /\ op' = "coerced"
    /\ UNCHANGED <<req, calls, text, src>>

NextHelper == CallDeFromStr

SpecHelper == InitHelper /\ [][NextHelper]_vars

\* the characters of the strings with escapes, written out by hand
StringContent(t) ==
    CASE t = "\"a\\\"b\""             -> "a\"b"
      [] t = "\"a\\nb\\t\\\\c\\/\""   -> "a\nb\t\\c/"
      [] OTHER                        -> SubSeq(t, 2, Len(t) - 1)

\* C9: de_from_str returns a JSON string unchanged, "true" or "false" for the
\* JSON booleans, and a custom error for a number, an object, an array or
\* null; on success it never returns None.
C9_Coercion ==
    op = "coerced" =>
        /\ src.type = "string" => out = Ok(Some(StringContent(src.text)))
        /\ src.type = "bool" => out = Ok(Some(src.text))
        /\ src.type \in {"number", "object", "array", "null"} => out = Err("custom")
        /\ out.ok => out.val.some

\* the boolean true has been coerced to the text "true"
C9_Witness ==
    /\ op = "coerced"
    /\ src.type = "bool"
    /\ text = "true"
    /\ out = Ok(Some("true"))

====
